---- MODULE Spec2Model ----
(***************************************************************************)
(* Model of the two build-and-deploy scripts of the workspace:             *)
(*   py/build-saclay.py  (variant "saclay")                                *)
(*   py/lf-build.py      (variant "lfbuild")                               *)
(* Both compile a Lingua Franca program with lfc, look for the federates'  *)
(* zephyr.elf files under src-gen/<program>, stage them and scp them.      *)
(***************************************************************************)
EXTENDS Integers, Sequences, FiniteSets, TLC

\* ------------------------------------------------------------------ bounds
\* longest directory name, in atoms
MaxNameLen == 2
\* longest list handed to classify_federates on its own
MaxListLen == 2
\* most federate directories the compiler leaves in src-gen/<program>
MaxFederates == 3

\* ------------------------------------------------------------------ names
\* A directory name is a non-empty sequence of atoms; its text is their
\* concatenation.  No atom is a prefix of another, so comparing two names atom
\* by atom, atoms in code-point order, is Python's comparison of the strings.
Atoms == {"Client", "RECV", "fed0", "fed1"}

AtomRank(a) ==
  CASE a = "Client" -> 1
    [] a = "RECV" -> 2
    [] a = "fed0" -> 3
    [] a = "fed1" -> 4

NoName == << >>

NamesUpTo(n) == UNION {[1..k -> Atoms] : k \in 1..n}

Names == NamesUpTo(MaxNameLen)

RECURSIVE NameLess(_, _)
NameLess(a, b) ==
  IF a = << >> THEN b # << >>
  ELSE IF b = << >> THEN FALSE
  ELSE IF Head(a) = Head(b) THEN NameLess(Tail(a), Tail(b))
  ELSE AtomRank(Head(a)) < AtomRank(Head(b))

\* the paths in descending order
RECURSIVE sorted_descending(_)
sorted_descending(S) ==
  IF S = {} THEN << >>
  ELSE LET m == CHOOSE x \in S : \A y \in S \ {x} : NameLess(y, x)
       IN <<m>> \o sorted_descending(S \ {m})

\* sorted(...) of a set of paths in one directory
RECURSIVE sorted(_)
sorted(S) ==
  IF S = {} THEN << >>
  ELSE LET m == CHOOSE x \in S : \A y \in S \ {x} : NameLess(x, y)
       IN <<m>> \o sorted(S \ {m})

\* a name compared as it is spelled
LowerAtomId(a) == a

\* str.lower() on one atom
LowerAtom(a) ==
  CASE a = "Client" -> "client"
    [] a = "RECV" -> "recv"
    [] OTHER -> a

lower(name) == [i \in DOMAIN name |-> LowerAtom(name[i])]

ClientTags == {"client", "src", "send"}
ServerTags == {"server", "snk", "recv"}

\* the tags that are substrings of one piece of text (case-sensitive, as `in`)
SubTags(s) ==
  CASE s = "client" -> {"client"}
    [] s = "recv" -> {"recv"}
    [] OTHER -> {}

\* any(tag in name for tag in tags)
AnyTagIn(tags, name) == \E i \in DOMAIN name : SubTags(name[i]) \cap tags # {}

\* ------------------------------------------------- classify_federates
\* mapping is the dict of the code; an unset key holds NoName
EmptyMapping == [client |-> NoName, server |-> NoName]

MappingLen(m) == (IF m.client # NoName THEN 1 ELSE 0) + (IF m.server # NoName THEN 1 ELSE 0)

RECURSIVE TagLoop(_, _)
TagLoop(feds, mapping) ==
  IF feds = << >> THEN mapping
  ELSE LET path == Head(feds)
           name == lower(path)
       IN IF AnyTagIn(ClientTags, name) /\ mapping.client = NoName
            THEN TagLoop(Tail(feds), [mapping EXCEPT !.client = path])
          ELSE IF AnyTagIn(ServerTags, name) /\ mapping.server = NoName
            THEN TagLoop(Tail(feds), [mapping EXCEPT !.server = path])
          ELSE TagLoop(Tail(feds), mapping)

\* the leftovers taken from the whole list
RemainingAll(federates, mapping) == federates

Remaining(federates, mapping) ==
  SelectSeq(federates, LAMBDA p : p # mapping.client /\ p # mapping.server)

FillLeftovers(federates, mapping) ==
  LET remaining == Remaining(federates, mapping)
      m1 == IF mapping.client = NoName /\ remaining # << >>
              THEN [mapping EXCEPT !.client = Head(remaining)] ELSE mapping
      r1 == IF mapping.client = NoName /\ remaining # << >>
              THEN Tail(remaining) ELSE remaining
      m2 == IF m1.server = NoName /\ r1 # << >>
              THEN [m1 EXCEPT !.server = Head(r1)] ELSE m1
  IN m2

classify_federates(federates) ==
  LET mapping == FillLeftovers(federates, TagLoop(federates, EmptyMapping))
  IN IF MappingLen(mapping) # 2
       THEN [ok |-> FALSE, client |-> NoName, server |-> NoName]
       ELSE [ok |-> TRUE, client |-> mapping.client, server |-> mapping.server]


\* ------------------------------------------------------------ the file tree
\* What lies under one federate directory: the paths named zephyr.elf below it
\* in sorted order, each a regular file or a directory, one of them possibly
\* the conventional build/zephyr/zephyr.elf.
LayoutNone == << >>
LayoutFixed == <<[kind |-> "file", fixed |-> TRUE]>>
LayoutNested == <<[kind |-> "file", fixed |-> FALSE]>>
LayoutFixedDir == <<[kind |-> "dir", fixed |-> TRUE]>>
LayoutDirThenFile == <<[kind |-> "dir", fixed |-> TRUE], [kind |-> "file", fixed |-> FALSE]>>

Layouts == {LayoutNone, LayoutFixed, LayoutNested, LayoutFixedDir, LayoutDirThenFile}

HasRegularElf(layout) == \E i \in DOMAIN layout : layout[i].kind = "file"

\* names the compiler gives federate directories in the pipeline runs
PipelineNames == {<<"Client">>, <<"RECV">>, <<"fed0">>, <<"fed1">>}

NoTree == [exists |-> FALSE, dirs |-> {}]
NoStage == [exists |-> FALSE, files |-> {}]

\* the subdirectory sets a compiler run can leave in src-gen/<program>
FreshDirs ==
  UNION {{{[name |-> n, layout |-> f[n], origin |-> "new"] : n \in NS} : f \in [NS -> Layouts]} :
         NS \in {X \in SUBSET PipelineNames : Cardinality(X) <= MaxFederates}}

\* the compiler writes its output over whatever src-gen/<program> holds
Generate(tree, out) ==
  [exists |-> TRUE,
   dirs |-> out \cup {e \in tree.dirs : \A o \in out : o.name # e.name}]

DirNames(tree) == {e.name : e \in tree.dirs}

EntryOf(tree, n) == CHOOSE e \in tree.dirs : e.name = n

\* what an earlier run left on disk
StaleTree == [exists |-> TRUE,
              dirs |-> {[name |-> <<"fed0">>, layout |-> LayoutFixed, origin |-> "old"]}]
StaleStage == [exists |-> TRUE,
               files |-> {[key |-> <<"fed0">>, origin |-> "old"],
                          [key |-> <<"echo_client">>, origin |-> "old"]}]
EmptyStage == [exists |-> TRUE, files |-> {}]

DiskSamples == {[tree |-> NoTree, stage |-> NoStage],
                [tree |-> StaleTree, stage |-> StaleStage],
                [tree |-> NoTree, stage |-> EmptyStage]}

\* shutil.copy2 into the staging directory: replaces a file of the same name
Put(files, key, origin) == {f \in files : f.key # key} \cup {[key |-> key, origin |-> origin]}

\* ------------------------------------------------------------- resolve_elf
NoElf == [dir |-> NoName, kind |-> "none", origin |-> "none"]

\* resolve_elf without the recursive search
resolve_elf_fixed_only(layout) ==
  IF \E i \in DOMAIN layout : layout[i].fixed /\ layout[i].kind = "file"
    THEN [ok |-> TRUE, kind |-> "file"]
    ELSE [ok |-> FALSE, kind |-> "none"]

resolve_elf(layout) ==
  IF \E i \in DOMAIN layout : layout[i].fixed /\ layout[i].kind = "file"
    THEN [ok |-> TRUE, kind |-> "file"]
  ELSE IF layout # << >>
    THEN [ok |-> TRUE, kind |-> layout[1].kind]
  ELSE [ok |-> FALSE, kind |-> "none"]

\* lf-build.py probes only the conventional path, with exists()
FixedPathExists(layout) == \E i \in DOMAIN layout : layout[i].fixed

FixedPathKind(layout) == layout[CHOOSE i \in DOMAIN layout : layout[i].fixed].kind

\* ---------------------------------------------------------------- arguments
Sources == [suffix : {".lf", ".txt"}, kind : {"missing", "file", "dir"}]

\* the check of the suffix alone
SaclaySuffixOnly(src) == src.suffix = ".lf"

\* build-saclay.py: lf_path.suffix != ".lf" or not lf_path.is_file()
SaclaySourceOk(src) == ~(src.suffix # ".lf" \/ ~(src.kind = "file"))

\* lf-build.py _validate_source_file: the first check that fails, "" if none
LfbSourceError(src) ==
  IF ~(src.suffix = ".lf") THEN "invalid_extension"
  ELSE IF src.kind = "missing" THEN "source_not_found"
  ELSE IF ~(src.kind = "file") THEN "source_not_file"
  ELSE ""

\* remote destinations, one character per element
RemoteSamples == {<<"u", "@", "h", ":", "p">>,
                  <<"u", "h", ":", "p">>,
                  <<"u", "@", "h", "p">>,
                  <<"u", "@", "h", ":">>,
                  <<"@", "h", ":", "p">>}

\* the pattern with .* for the path: r'^[^@]+@[^:]+:.*$'
ValidRemoteUrlAnyPath(s) ==
  \E i \in 2..Len(s) : \E j \in (i + 2)..Len(s) :
    /\ \A k \in 1..(i - 1) : s[k] # "@"
    /\ s[i] = "@"
    /\ \A k \in (i + 1)..(j - 1) : s[k] # ":"
    /\ s[j] = ":"

\* re.match(r'^[^@]+@[^:]+:.+$', remote_url)
ValidRemoteUrl(s) ==
  \E i \in 2..Len(s) : \E j \in (i + 2)..Len(s) :
    /\ \A k \in 1..(i - 1) : s[k] # "@"
    /\ s[i] = "@"
    /\ \A k \in (i + 1)..(j - 1) : s[k] # ":"
    /\ s[j] = ":"
    /\ Len(s) >= j + 1

\* subprocess.run without check=True never raises on the exit status
CheckIgnored(rc) == FALSE

\* subprocess.run(..., check=True) raises CalledProcessError on a nonzero status
CheckRaises(rc) == rc # 0


\* -------------------------------------------------------------------- state
VARIABLES
  variant,      \* which script runs: "saclay" or "lfbuild"
  command,      \* lf-build.py's positional command; build-saclay.py has only "all"
  skip_ssh,     \* lf-build.py --no-ssh
  remote,       \* --remote / --remote-url
  source,       \* the path given as the .lf source
  tree,         \* src-gen/<program>
  stage,        \* build/programs (saclay) or <program>_build (lfbuild)
  tree0,        \* src-gen/<program> as the run found it
  stage0,       \* the staging directory as the run found it
  pc,           \* the statement the script is at
  err,          \* the exception that ended the run, "" if none
  exitCode,     \* the process's exit status, -1 while it runs
  trace,        \* steps completed and processes spawned, in order
  listed,       \* src-gen/<program> was listed (iterdir)
  created,      \* this run created the staging directory
  lfc_rc,       \* exit status of the compiler, -1 if it did not run
  federates,    \* find_federates' result
  client_dir,
  server_dir,
  client_elf,
  server_elf,
  queue,        \* staged files still to be copied to the remote
  sent          \* staged files copied to the remote

vars == <<variant, command, skip_ssh, remote, source, tree, stage, tree0, stage0, pc, err,
          exitCode, trace, listed, created, lfc_rc, federates, client_dir, server_dir,
          client_elf, server_elf, queue, sent>>

args == <<variant, command, skip_ssh, remote, source, tree0, stage0>>
disk == <<tree, stage, created>>
locals == <<federates, client_dir, server_dir, client_elf, server_elf>>

Commands(v) == IF v = "saclay" THEN {"all"} ELSE {"all", "clean", "build", "ssh"}

Init ==
  /\ variant \in {"saclay", "lfbuild"}
  /\ command \in Commands(variant)
  /\ skip_ssh \in (IF variant = "saclay" THEN {FALSE} ELSE BOOLEAN)
  /\ remote \in RemoteSamples
  /\ source \in Sources
  /\ \E d \in DiskSamples : tree = d.tree /\ stage = d.stage
  /\ tree0 = tree
  /\ stage0 = stage
  /\ pc = "start"
  /\ err = ""
  /\ exitCode = -1
  /\ trace = << >>
  /\ listed = FALSE
  /\ created = FALSE
  /\ lfc_rc = -1
  /\ federates = << >>
  /\ client_dir = NoName
  /\ server_dir = NoName
  /\ client_elf = NoElf
  /\ server_elf = NoElf
  /\ queue = {}
  /\ sent = {}

\* an exception that is reported while the script goes on
RaiseAndGoOn(e, code, events) ==
  /\ pc' = pc
  /\ err' = e
  /\ exitCode' = code
  /\ trace' = trace \o events \o <<"Failed">>

\* an exception reaches the top level: the message is printed, the process exits
Raise(e, code, events) ==
  /\ pc' = "exit"
  /\ err' = e
  /\ exitCode' = code
  /\ trace' = trace \o events \o <<"Failed">>

\* the script returns normally
Finish(events) ==
  /\ pc' = "exit"
  /\ err' = ""
  /\ exitCode' = 0
  /\ trace' = trace \o events

Goto(p, events) ==
  /\ pc' = p
  /\ trace' = trace \o events
  /\ UNCHANGED <<err, exitCode>>

\* ---------------------------------------------------------- build-saclay.py
\* main, up to parser.error
SaclayParse ==
  /\ variant = "saclay" /\ pc = "start"
  /\ IF SaclaySourceOk(source)
       THEN Goto("clear_src_gen", << >>)
       ELSE Raise("usage", 2, << >>)
  /\ UNCHANGED <<args, disk, locals, listed, lfc_rc, queue, sent>>

\* clear_src_gen leaving src-gen in place
clear_src_gen_skipped(t) == t

clear_src_gen(t) == NoTree

SaclayClear ==
  /\ variant = "saclay" /\ pc = "clear_src_gen"
  /\ tree' = clear_src_gen(tree)
  /\ Goto("run_lfc", <<"Clean">>)
  /\ UNCHANGED <<args, stage, created, locals, listed, lfc_rc, queue, sent>>

\* run_lfc: the compiler binary is not installed
SaclayLfcMissing ==
  /\ variant = "saclay" /\ pc = "run_lfc"
  /\ Raise("compiler_missing", 1, << >>)
  /\ UNCHANGED <<args, disk, locals, listed, lfc_rc, queue, sent>>

\* run_lfc: the compiler runs and exits with status rc
SaclayLfc ==
  /\ variant = "saclay" /\ pc = "run_lfc"
  /\ \E rc \in {0, 1} :
       /\ lfc_rc' = rc
       /\ IF CheckRaises(rc)
            THEN /\ Raise("compile_failed", 1, <<"lfc">>)
                 /\ tree' = tree
            ELSE /\ Goto("find_federates", <<"lfc", "Compiled">>)
                 /\ \/ tree' = tree
                    \/ \E out \in FreshDirs : tree' = Generate(tree, out)
  /\ UNCHANGED <<args, stage, created, locals, listed, queue, sent>>

\* find_federates accepting any two or more directories
FederateCountAtLeastTwo(n) == n >= 2

FederateCountOk(n) == n = 2

SaclayFind ==
  /\ variant = "saclay" /\ pc = "find_federates"
  /\ IF ~tree.exists
       THEN /\ Raise("no_generated_output", 1, << >>)
            /\ UNCHANGED <<federates, listed>>
       ELSE /\ listed' = TRUE
            /\ federates' = sorted(DirNames(tree))
            /\ IF FederateCountOk(Len(federates'))
                 THEN Goto("classify_federates", <<"Discovered">>)
                 ELSE Raise("federate_count", 1, << >>)
  /\ UNCHANGED <<args, disk, client_dir, server_dir, client_elf, server_elf, lfc_rc, queue, sent>>

SaclayClassify ==
  /\ variant = "saclay" /\ pc = "classify_federates"
  /\ LET r == classify_federates(federates)
     IN IF r.ok
          THEN /\ client_dir' = r.client /\ server_dir' = r.server
               /\ Goto("resolve_client", <<"Classified">>)
          ELSE /\ Raise("unable_to_classify", 1, << >>)
               /\ UNCHANGED <<client_dir, server_dir>>
  /\ UNCHANGED <<args, disk, federates, client_elf, server_elf, listed, lfc_rc, queue, sent>>

Resolved(t, d) ==
  LET e == EntryOf(t, d)
  IN [dir |-> d, kind |-> resolve_elf(e.layout).kind, origin |-> e.origin]

SaclayResolveClient ==
  /\ variant = "saclay" /\ pc = "resolve_client"
  /\ IF resolve_elf(EntryOf(tree, client_dir).layout).ok
       THEN /\ client_elf' = Resolved(tree, client_dir)
            /\ Goto("resolve_server", << >>)
       ELSE /\ Raise("missing_elf", 1, << >>)
            /\ UNCHANGED client_elf
  /\ UNCHANGED <<args, disk, federates, client_dir, server_dir, server_elf, listed, lfc_rc,
                 queue, sent>>

SaclayResolveServer ==
  /\ variant = "saclay" /\ pc = "resolve_server"
  /\ IF resolve_elf(EntryOf(tree, server_dir).layout).ok
       THEN /\ server_elf' = Resolved(tree, server_dir)
            /\ Goto("stage_binaries", <<"Resolved">>)
       ELSE /\ Raise("missing_elf", 1, << >>)
            /\ UNCHANGED server_elf
  /\ UNCHANGED <<args, disk, federates, client_dir, server_dir, client_elf, listed, lfc_rc,
                 queue, sent>>

\* stage_binaries: mkdir, then copy2 of the client's and of the server's binary;
\* copy2 of a directory raises IsADirectoryError
SaclayStage ==
  /\ variant = "saclay" /\ pc = "stage_binaries"
  /\ created' = (created \/ ~stage.exists)
  /\ IF client_elf.kind # "file"
       THEN /\ stage' = [exists |-> TRUE, files |-> stage.files]
            /\ Raise("copy_failed", 1, << >>)
            /\ queue' = queue
     ELSE IF server_elf.kind # "file"
       THEN /\ stage' = [exists |-> TRUE,
                         files |-> Put(stage.files, <<"echo_client">>, client_elf.origin)]
            /\ Raise("copy_failed", 1, << >>)
            /\ queue' = queue
     ELSE /\ stage' = [exists |-> TRUE,
                       files |-> Put(Put(stage.files, <<"echo_client">>, client_elf.origin),
                                     <<"echo_server">>, server_elf.origin)]
          /\ queue' = {f \in stage'.files : f.key \in {<<"echo_client">>, <<"echo_server">>}}
          /\ Goto("scp_binaries", <<"Staged">>)
  /\ UNCHANGED <<args, tree, locals, listed, lfc_rc, sent>>

\* scp_binaries: one scp with both staged files; scp may be missing, may fail
\* after copying some of the files, or succeeds
SaclayScp ==
  /\ variant = "saclay" /\ pc = "scp_binaries"
  /\ \/ /\ Raise("scp_missing", 1, << >>)
        /\ UNCHANGED <<queue, sent>>
     \/ /\ \E done \in SUBSET queue :
             /\ done # queue
             /\ sent' = sent \cup done
             /\ queue' = queue \ done
        /\ Raise("scp_failed", 1, <<"scp">>)
     \/ /\ sent' = sent \cup queue
        /\ queue' = {}
        /\ Finish(<<"scp", "Transferred">>)
  /\ UNCHANGED <<args, disk, locals, listed, lfc_rc>>

NextSaclay ==
  \/ SaclayParse
  \/ SaclayClear
  \/ SaclayLfcMissing
  \/ SaclayLfc
  \/ SaclayFind
  \/ SaclayClassify
  \/ SaclayResolveClient
  \/ SaclayResolveServer
  \/ SaclayStage
  \/ SaclayScp


\* ---------------------------------------------------------------- lf-build.py
\* the method main calls first, and the one all() calls after each
FirstMethod(cmd) == IF cmd = "all" THEN "clean" ELSE cmd

\* LFBuilder.__init__ inside main's try
LfbInit ==
  /\ variant = "lfbuild" /\ pc = "start"
  /\ IF LfbSourceError(source) # ""
       THEN Raise(LfbSourceError(source), 1, << >>)
     ELSE IF ~skip_ssh /\ ~ValidRemoteUrl(remote)
       THEN Raise("invalid_remote", 1, << >>)
     ELSE Goto(FirstMethod(command), << >>)
  /\ UNCHANGED <<args, disk, locals, listed, lfc_rc, queue, sent>>

\* what is left after clean() removed a directory
CleanedTree(t) == NoTree
CleanedStage(s) == NoStage

LfbClean ==
  /\ variant = "lfbuild" /\ pc = "clean"
  /\ stage' = CleanedStage(stage)
  /\ tree' = CleanedTree(tree)
  /\ IF command = "all" THEN Goto("build", <<"Clean">>) ELSE Finish(<<"Clean">>)
  /\ UNCHANGED <<args, created, locals, listed, lfc_rc, queue, sent>>

\* build: subprocess.run raises FileNotFoundError, the compiler is not installed
LfbLfcMissing ==
  /\ variant = "lfbuild" /\ pc = "build"
  /\ Raise("compiler_missing", 1, << >>)
  /\ UNCHANGED <<args, disk, locals, listed, lfc_rc, queue, sent>>

\* build: the compiler runs and exits with status rc
LfbLfc ==
  /\ variant = "lfbuild" /\ pc = "build"
  /\ \E rc \in {0, 1} :
       /\ lfc_rc' = rc
       /\ IF CheckRaises(rc)
            THEN /\ Raise("compile_failed", 1, <<"lfc">>)
                 /\ tree' = tree
            ELSE /\ Goto("copy_federate_elfs", <<"lfc", "Compiled">>)
                 /\ \/ tree' = tree
                    \/ \E out \in FreshDirs : tree' = Generate(tree, out)
  /\ UNCHANGED <<args, stage, created, locals, listed, queue, sent>>

\* _find_federate_elfs: the federate directories whose conventional path exists
FederateElfs(t) == {e \in t.dirs : FixedPathExists(e.layout)}

RECURSIVE PutAll(_, _)
PutAll(files, entries) ==
  IF entries = {} THEN files
  ELSE LET e == CHOOSE x \in entries : TRUE
       IN PutAll(Put(files, e.name, e.origin), entries \ {e})

\* _copy_federate_elfs, the rest of build: mkdir, _find_federate_elfs, copy2 of
\* each binary found, in iterdir's order, which is any order; copy2 of a
\* directory raises IsADirectoryError, after the copies that came before it
LfbCopy ==
  /\ variant = "lfbuild" /\ pc = "copy_federate_elfs"
  /\ created' = (created \/ ~stage.exists)
  /\ IF ~tree.exists
       THEN /\ stage' = [exists |-> TRUE, files |-> stage.files]
            /\ Raise("no_generated_output", 1, << >>)
            /\ UNCHANGED <<federates, listed>>
     ELSE /\ listed' = TRUE
          /\ LET found == FederateElfs(tree)
                 files == {e \in found : FixedPathKind(e.layout) = "file"}
             IN IF found = {}
                  THEN /\ stage' = [exists |-> TRUE, files |-> stage.files]
                       /\ Raise("no_elf_files_found", 1, << >>)
                       /\ UNCHANGED federates
                ELSE IF files # found
                  THEN /\ \E copied \in SUBSET files :
                            stage' = [exists |-> TRUE, files |-> PutAll(stage.files, copied)]
                       /\ Raise("copy_failed", 1, <<"Discovered", "Resolved">>)
                       /\ federates' = sorted({e.name : e \in found})
                ELSE /\ stage' = [exists |-> TRUE, files |-> PutAll(stage.files, files)]
                     /\ federates' = sorted({e.name : e \in found})
                     /\ IF command = "all"
                          THEN Goto("ssh", <<"Discovered", "Resolved", "Staged">>)
                          ELSE Finish(<<"Discovered", "Resolved", "Staged">>)
  /\ UNCHANGED <<args, tree, client_dir, server_dir, client_elf, server_elf, lfc_rc, queue, sent>>

\* ssh, up to the loop over the staged files
LfbSsh ==
  /\ variant = "lfbuild" /\ pc = "ssh"
  /\ IF skip_ssh
       THEN Finish(<< >>) /\ UNCHANGED queue
     ELSE IF ~stage.exists
       THEN Raise("build_dir_missing", 1, << >>) /\ UNCHANGED queue
     ELSE IF stage.files = {}
       THEN Raise("no_elf_files", 1, << >>) /\ UNCHANGED queue
     ELSE Goto("scp", << >>) /\ queue' = stage.files
  /\ UNCHANGED <<args, disk, locals, listed, lfc_rc, sent>>

\* one turn of ssh's loop: scp of one staged file, in glob's order, which is any
\* order; scp may be missing, may fail, or succeeds
LfbScp ==
  /\ variant = "lfbuild" /\ pc = "scp"
  /\ \E f \in queue :
       \/ /\ Raise("scp_missing", 1, << >>)
          /\ UNCHANGED <<queue, sent>>
       \/ /\ Raise("scp_failed", 1, <<"scp">>)
          /\ UNCHANGED <<queue, sent>>
       \/ /\ sent' = sent \cup {f}
          /\ queue' = queue \ {f}
          /\ IF queue' = {}
               THEN Finish(<<"scp", "Transferred">>)
               ELSE Goto("scp", <<"scp">>)
  /\ UNCHANGED <<args, disk, locals, listed, lfc_rc>>

NextLfb ==
  \/ LfbInit
  \/ LfbClean
  \/ LfbLfcMissing
  \/ LfbLfc
  \/ LfbCopy
  \/ LfbSsh
  \/ LfbScp

Next == NextSaclay \/ NextLfb

Spec == Init /\ [][Next]_vars


\* ------------------------------------------- classify_federates on its own
\* lists of up to n distinct directories, in any order
DistinctLists(n) ==
  {l \in UNION {[1..k -> Names] : k \in 0..n} : \A i, j \in DOMAIN l : i # j => l[i] # l[j]}

IdleRun ==
  /\ variant = "saclay" /\ command = "all" /\ skip_ssh = FALSE
  /\ remote = <<"u", "@", "h", ":", "p">>
  /\ source = [suffix |-> ".lf", kind |-> "file"]
  /\ stage = NoStage /\ stage0 = NoStage /\ tree0 = NoTree
  /\ err = "" /\ exitCode = -1 /\ created = FALSE /\ lfc_rc = 0
  /\ client_dir = NoName /\ server_dir = NoName
  /\ client_elf = NoElf /\ server_elf = NoElf
  /\ queue = {} /\ sent = {}

\* main has reached classify_federates(federates)
InitClassify ==
  /\ IdleRun
  /\ pc = "classify_federates"
  /\ federates \in DistinctLists(MaxListLen)
  /\ tree = [exists |-> TRUE,
             dirs |-> {[name |-> federates[i], layout |-> LayoutFixed, origin |-> "new"] :
                       i \in DOMAIN federates}]
  /\ listed = TRUE
  /\ trace = <<"Clean", "lfc", "Compiled", "Discovered">>

SpecClassify == InitClassify /\ [][SaclayClassify]_vars

\* main has reached find_federates, the compiler has left some directories
InitListing ==
  /\ IdleRun
  /\ pc = "find_federates"
  /\ federates = << >>
  /\ \E l \in DistinctLists(MaxListLen) :
       tree = [exists |-> TRUE,
               dirs |-> {[name |-> l[i], layout |-> LayoutFixed, origin |-> "new"] :
                         i \in DOMAIN l}]
  /\ listed = FALSE
  /\ trace = <<"Clean", "lfc", "Compiled">>

SpecListing == InitListing /\ [][SaclayFind \/ SaclayClassify]_vars


\* ================================================================ properties
Has(seq, e) == \E i \in DOMAIN seq : seq[i] = e

Canonical == <<"Clean", "Compiled", "Discovered", "Classified", "Resolved", "Staged",
               "Transferred">>

Steps == SelectSeq(trace, LAMBDA e : Has(Canonical, e))

IsPrefix(a, b) == Len(a) <= Len(b) /\ \A i \in DOMAIN a : a[i] = b[i]

NoProcess == ~Has(trace, "lfc") /\ ~Has(trace, "scp")

CandidateCount == Cardinality(tree.dirs)

StagedKeys == {f.key : f \in stage.files}

\* ---- C1
\* C1 as stated: whenever the generated tree was listed and holds 0, 1 or 3 or
\* more candidate directories the run has failed (whatever the script names
\* the error) and nothing is staged or transferred; with exactly 2 the
\* discover/classify step does not fail.
C1_AsStated ==
  listed =>
    IF CandidateCount # 2
      THEN /\ err # "" /\ pc = "exit"
           /\ ~Has(trace, "Staged") /\ sent = {}
      ELSE err \notin {"federate_count", "unable_to_classify"}

\* C1 amended: build-saclay.py fails on every count other than 2, with nothing
\* staged or transferred, and never fails in find_federates or
\* classify_federates on 2; lf-build.py checks no count, it fails on the
\* listing exactly when no directory has build/zephyr/zephyr.elf and stages
\* the binaries of a listing in which all of them are regular files, however
\* many there are.
C1_CountPerVariant ==
  /\ (variant = "saclay" /\ listed) =>
       IF CandidateCount # 2
         THEN /\ err = "federate_count" /\ pc = "exit" /\ exitCode = 1
              /\ stage = stage0 /\ sent = {} /\ ~Has(trace, "scp")
         ELSE err \notin {"federate_count", "unable_to_classify"}
  /\ (variant = "lfbuild" /\ listed) =>
       /\ (err = "no_elf_files_found") <=> (\A e \in tree.dirs : ~FixedPathExists(e.layout))
       /\ (/\ \E e \in tree.dirs : FixedPathExists(e.layout)
           /\ \A e \in tree.dirs : FixedPathExists(e.layout) => FixedPathKind(e.layout) = "file")
          => Has(trace, "Staged")

C1_Witness ==
  /\ variant = "saclay" /\ listed /\ CandidateCount = 3
  /\ err = "federate_count"

\* ---- C2
NoChar(s, c) == \A i \in DOMAIN s : s[i] # c

\* no '@', no ':', nothing before the '@', or nothing after the only ':'
Malformed(s) ==
  \/ NoChar(s, "@")
  \/ NoChar(s, ":")
  \/ s[1] = "@"
  \/ (s[Len(s)] = ":" /\ NoChar(SubSeq(s, 1, Len(s) - 1), ":"))

\* C2 as stated: a run whose destination is malformed never spawns the
\* compiler or the copy tool (build-saclay.py always transfers, lf-build.py
\* unless --no-ssh).
C2_AsStated ==
  (Malformed(remote) /\ ~skip_ssh) => NoProcess

\* C2 amended: lf-build.py with the transfer enabled rejects a malformed
\* destination in the constructor, before any external process: the run has
\* ended with status 1 and no process, with the invalid-remote error unless
\* the source file was rejected first.  build-saclay.py does not look at the
\* destination.
C2_LfbRejectsFirst ==
  (variant = "lfbuild" /\ ~skip_ssh /\ Malformed(remote)) =>
    /\ NoProcess
    /\ pc \in {"start", "exit"}
    /\ pc = "exit" =>
         /\ exitCode = 1
         /\ source = [suffix |-> ".lf", kind |-> "file"] => err = "invalid_remote"

C2_Witness ==
  /\ variant = "lfbuild" /\ ~skip_ssh /\ remote = <<"u", "@", "h", ":">>
  /\ err = "invalid_remote" /\ pc = "exit"


\* ---- C3
LayoutOf(d) == EntryOf(tree, d).layout

\* build-saclay.py has called resolve_elf on the client's / server's directory
ClientResolveDone == variant = "saclay" /\ client_dir # NoName /\ pc # "resolve_client"
ServerResolveDone ==
  variant = "saclay" /\ server_dir # NoName /\ client_elf # NoElf /\ pc # "resolve_server"

\* C3 as stated: resolve succeeds on a directory with a regular zephyr.elf at
\* any depth and fails with the missing-binary error, ending the run, on a
\* directory with none; no listed directory is passed over: a run that staged
\* its binaries staged one for every directory of the listing.
C3_AsStated ==
  /\ ClientResolveDone =>
       IF HasRegularElf(LayoutOf(client_dir))
         THEN client_elf.kind = "file"
         ELSE client_elf = NoElf /\ err = "missing_elf" /\ pc = "exit"
  /\ ServerResolveDone =>
       IF HasRegularElf(LayoutOf(server_dir))
         THEN server_elf.kind = "file"
         ELSE server_elf = NoElf /\ err = "missing_elf" /\ pc = "exit"
  /\ (variant = "lfbuild" /\ listed /\ Has(trace, "Staged")) =>
       \A e \in tree.dirs : [key |-> e.name, origin |-> e.origin] \in stage.files

\* C3 amended: in build-saclay.py resolve_elf returns a path whenever anything
\* named zephyr.elf lies under the directory, at the conventional path or at
\* any other depth (a regular file at the conventional path first, else the
\* first match in sorted order, which may be a directory), and raises, ending
\* the run with status 1, when nothing does; both classified directories are
\* resolved before anything is staged.  lf-build.py probes the conventional
\* path only: it stages the directories that have it, passes over the others,
\* and fails only when none has it.
C3_ResolvePerVariant ==
  /\ ClientResolveDone =>
       IF LayoutOf(client_dir) # << >>
         THEN client_elf.dir = client_dir /\ client_elf.kind \in {"file", "dir"}
         ELSE client_elf = NoElf /\ err = "missing_elf" /\ pc = "exit" /\ exitCode = 1
  /\ ServerResolveDone =>
       IF LayoutOf(server_dir) # << >>
         THEN server_elf.dir = server_dir /\ server_elf.kind \in {"file", "dir"}
         ELSE server_elf = NoElf /\ err = "missing_elf" /\ pc = "exit" /\ exitCode = 1
  /\ (variant = "saclay" /\ Has(trace, "Staged")) =>
       client_elf.kind = "file" /\ server_elf.kind = "file"
  /\ (variant = "lfbuild" /\ listed /\ Has(trace, "Staged")) =>
       \A e \in tree.dirs :
         FixedPathExists(e.layout) => [key |-> e.name, origin |-> e.origin] \in stage.files
  /\ (variant = "lfbuild" /\ listed /\ err = "no_elf_files_found") =>
       \A e \in tree.dirs : ~FixedPathExists(e.layout)

C3_Witness ==
  /\ ClientResolveDone /\ LayoutOf(client_dir) = LayoutNested /\ client_elf.kind = "file"
  /\ ServerResolveDone /\ LayoutOf(server_dir) = LayoutNone /\ err = "missing_elf"

\* lf-build.py passing over a directory whose binary is not at the conventional path
C3_WitnessSkipped ==
  /\ variant = "lfbuild" /\ listed /\ exitCode = 0
  /\ \E e \in tree.dirs : e.layout = LayoutNested /\ e.name \notin StagedKeys

\* ---- C4
\* the atoms whose text holds a client / a server token, whatever the case
ClientAtoms == {"Client"}
ServerAtoms == {"RECV"}

HasClientToken(n) == \E i \in DOMAIN n : n[i] \in ClientAtoms
HasServerToken(n) == \E i \in DOMAIN n : n[i] \in ServerAtoms

ClassifyReturned == pc = "resolve_client"

\* C4 as stated: of two candidates, one with a client token and the other with
\* a server token, the first is the client and the second the server, in
\* either order of the list.
C4_AsStated ==
  (ClassifyReturned /\ Len(federates) = 2) =>
    \A i, j \in {1, 2} :
      (i # j /\ HasClientToken(federates[i]) /\ HasServerToken(federates[j])) =>
        client_dir = federates[i] /\ server_dir = federates[j]

\* C4 amended: the same, for a server candidate whose name holds no client
\* token (a name with both tokens that comes first in the list takes the
\* client role).
C4_TokensDecide ==
  (ClassifyReturned /\ Len(federates) = 2) =>
    \A i, j \in {1, 2} :
      (/\ i # j
       /\ HasClientToken(federates[i])
       /\ HasServerToken(federates[j]) /\ ~HasClientToken(federates[j])) =>
        client_dir = federates[i] /\ server_dir = federates[j]

C4_Witness ==
  /\ ClassifyReturned
  /\ federates = << <<"RECV", "fed0">>, <<"fed1", "Client">> >>
  /\ client_dir = <<"fed1", "Client">> /\ server_dir = <<"RECV", "fed0">>

\* ---- C5
Selected ==
  IF variant = "saclay" THEN Canonical
  ELSE CASE command = "all" ->
              <<"Clean", "Compiled", "Discovered", "Resolved", "Staged">> \o
                (IF skip_ssh THEN << >> ELSE <<"Transferred">>)
         [] command = "clean" -> <<"Clean">>
         [] command = "build" -> <<"Compiled", "Discovered", "Resolved", "Staged">>
         [] command = "ssh" -> IF skip_ssh THEN << >> ELSE <<"Transferred">>

FailedIsLast ==
  \A i \in DOMAIN trace :
    trace[i] = "Failed" => i = Len(trace) /\ pc = "exit" /\ exitCode \notin {0, -1}

C6_CompileFailureHalts ==
  lfc_rc \notin {-1, 0} =>
    /\ pc = "exit" /\ exitCode = 1 /\ err = "compile_failed"
    /\ ~listed /\ ~Has(trace, "Discovered")
    /\ ~created /\ ~Has(trace, "Staged")
    /\ ~Has(trace, "scp") /\ sent = {}

C6_Witness == lfc_rc = 1 /\ pc = "exit" /\ Has(trace, "lfc") /\ variant = "saclay"

\* ---- C7
SourceIsLfFile == source.suffix = ".lf" /\ source.kind = "file"

\* C7: a source path that is missing, is not a regular file or has not the
\* .lf suffix ends the run with a usage error and a nonzero status before any
\* side effect: the directories are as the run found them, nothing is
\* transferred and no process is spawned.
C7_BadSourceNoSideEffect ==
  ~SourceIsLfFile =>
    /\ tree = tree0 /\ stage = stage0 /\ ~created
    /\ sent = {} /\ NoProcess /\ ~listed
    /\ pc \in {"start", "exit"}
    /\ pc = "exit" =>
         /\ exitCode \in {1, 2}
         /\ err \in {"usage", "invalid_extension", "source_not_found", "source_not_file"}

C7_Witness ==
  /\ source = [suffix |-> ".lf", kind |-> "dir"] /\ pc = "exit" /\ variant = "saclay"
  /\ tree0 = StaleTree /\ tree = StaleTree

\* ---- C8
\* C8 as stated: every file a run transfers comes from the tree its own
\* compile step produced.
C8_AsStated == \A f \in sent : f.origin = "new"

\* C8 amended: in the runs that begin with the Clean step (build-saclay.py,
\* lf-build.py all) every file staged for transfer or transferred comes from
\* the tree the run's own compile step produced; lf-build.py build and ssh
\* work on what earlier runs left.
C8_CleanRunsAreFresh ==
  (variant = "saclay" \/ command = "all") =>
    /\ \A f \in sent \cup queue : f.origin = "new"
    /\ listed => \A e \in tree.dirs : e.origin = "new"

C8_Witness ==
  /\ variant = "saclay" /\ tree0 = StaleTree /\ stage0 = StaleStage
  /\ Cardinality(sent) = 2 /\ exitCode = 0

\* ---- C9
HasNoToken(n) == ~HasClientToken(n) /\ ~HasServerToken(n)

\* C9: two listed candidates without a token are given their roles by
\* position in the sorted listing: the first, which is the lesser name, is the
\* client and the second the server (fed0 the client, fed1 the server).
C9_PositionalFallback ==
  (ClassifyReturned /\ Len(federates) = 2 /\ HasNoToken(federates[1]) /\ HasNoToken(federates[2]))
    => /\ client_dir = federates[1] /\ server_dir = federates[2]
       /\ NameLess(client_dir, server_dir)
       /\ DirNames(tree) = {<<"fed0">>, <<"fed1">>} =>
            client_dir = <<"fed0">> /\ server_dir = <<"fed1">>

C9_Witness ==
  /\ ClassifyReturned /\ DirNames(tree) = {<<"fed0">>, <<"fed1">>}
  /\ client_dir = <<"fed0">> /\ server_dir = <<"fed1">>

\* ---- C10
Range(seq) == {seq[i] : i \in DOMAIN seq}

\* C10: an assignment that classify returns fills both roles, with two
\* different candidates of its input; when it does not return one the run has
\* failed and no role is filled.
C10_Bijection ==
  /\ ClassifyReturned =>
       /\ client_dir # NoName /\ server_dir # NoName
       /\ client_dir # server_dir
       /\ {client_dir, server_dir} \subseteq Range(federates)
  /\ (pc = "exit") =>
       /\ err = "unable_to_classify" /\ exitCode = 1
       /\ client_dir = NoName /\ server_dir = NoName
       /\ Len(federates) < 2

C10_Witness ==
  /\ ClassifyReturned /\ Len(federates) = 2
  /\ HasClientToken(federates[1]) /\ HasClientToken(federates[2])
  /\ client_dir = federates[1] /\ server_dir = federates[2]

====
